---- MODULE Spec2Model ----
(***************************************************************************)
(* Culinary Educational API: the request handlers of main.py over the      *)
(* document store.                                                         *)
(*                                                                         *)
(* Representation                                                          *)
(*   - a Python str is a sequence of one-character strings; None (for an   *)
(*     Optional[str]) is the one-element sequence <<"None">>, which no     *)
(*     text is, every character being a string of length one;              *)
(*   - an Optional[bool] is a set of at most one boolean, None being {};   *)
(*   - a dict / stored document is a function from its keys to values, the *)
(*     empty dict and a missing document (None) both being the empty       *)
(*     function, as both are falsy in the handlers' tests;                 *)
(*   - an ObjectId is a natural number, str(ObjectId) is StrOid;           *)
(*   - a datetime is a natural number (the tick of a logical clock),       *)
(*     datetime.isoformat() is IsoFormat.                                  *)
(***************************************************************************)
EXTENDS Integers, Sequences, FiniteSets, TLC

\* ---------------------------------------------------------------- bounds
\* number of documents the store may hold in total
MaxDocs == 2
\* number of set_contact calls that may be started
MaxCalls == 2

\* the request workers that may be inside set_contact at the same time
Workers == {"w1", "w2"}

\* ---------------------------------------------------------------- values
None == <<"None">>
NoneBool == {}
EmptyDict == [k \in {} |-> k]
NoDoc == EmptyDict

Truthy(s) == s # None /\ s # <<>>

StrOid(oid) == "oid" \o ToString(oid)
IsoFormat(t) == "T" \o ToString(t)

\* keys whose stored value is a datetime
DatetimeKeys == {"updated_at"}

Put(d, key, v) == [k \in DOMAIN d \cup {key} |-> IF k = key THEN v ELSE d[k]]
SetDefault(d, key, v) == IF key \in DOMAIN d THEN d ELSE Put(d, key, v)
Merge(d, e) == [k \in DOMAIN d \cup DOMAIN e |-> IF k \in DOMAIN e THEN e[k] ELSE d[k]]
Without(d, key) == [k \in DOMAIN d \ {key} |-> d[k]]

\* ---------------------------------------------------------------- schemas
RecipePayloads ==
  { [title |-> <<"A", "b">>, description |-> None, ingredients |-> <<>>,
     steps |-> <<>>, tags |-> << <<"b", "a">> >>,
     image_url |-> None, video_url |-> None],
    [title |-> <<"b">>, description |-> <<"a">>, ingredients |-> << <<"A">> >>,
     steps |-> << <<"a">> >>, tags |-> <<>>,
     image_url |-> <<"u">>, video_url |-> None],
    [title |-> <<"a", "a">>, description |-> None, ingredients |-> <<>>,
     steps |-> <<>>, tags |-> << <<".">>, <<"a">> >>,
     image_url |-> None, video_url |-> None] }

LessonPayloads ==
  { [title |-> <<"A">>, content |-> <<"b", "a">>, level |-> None,
     tags |-> <<>>, video_url |-> None],
    [title |-> <<"b">>, content |-> <<"b">>, level |-> <<"a">>,
     tags |-> << <<"A", "b">> >>, video_url |-> <<"u">>] }

AdPayloads ==
  { [title |-> <<"a">>, body |-> None, image_url |-> None,
     link_url |-> None, active |-> TRUE],
    [title |-> <<"b">>, body |-> <<"a">>, image_url |-> None,
     link_url |-> <<"u">>, active |-> FALSE] }

VideoPayloads ==
  { [title |-> <<"a", "B">>, description |-> None, video_url |-> <<"u">>,
     tags |-> <<>>],
    [title |-> <<"b">>, description |-> <<"b", "A">>, video_url |-> <<"u">>,
     tags |-> << <<"a">> >>] }

ContactPayloads ==
  { [phone |-> <<"a">>, email |-> <<"a">>, address |-> <<"a">>],
    [phone |-> <<"b">>, email |-> <<"b">>, address |-> <<"b">>] }

\* the values the query parameters q and tag are drawn from
QueryArgs == { None, <<>>, <<"a">>, <<"B">>, <<".">>, <<"(">> }
TagArgs == { None, <<"A">> }
\* the keyword arguments list_ads may be called with
AdArgs == { EmptyDict } \cup { [active |-> a] : a \in {NoneBool, {TRUE}, {FALSE}} }

\* ---------------------------------------------------------------- state
VARIABLES
  db,        \* the connection handle: "None" or "connected"
  store,     \* collection name -> sequence of documents, in insertion order
  nextId,    \* the next ObjectId the store generates
  clock,     \* the reading of datetime.now() at the latest call
  pc,        \* worker -> "idle" | "found" (inside set_contact, after find_one)
  payload,   \* worker -> the payload of its set_contact call
  data,      \* worker -> the local dict data of its set_contact call
  existing,  \* worker -> the result of find_one in its set_contact call
  resp,      \* the response of the latest completed request
  created,   \* the {id} answers of the create calls so far
  scLog      \* the {id} answers of the set_contact calls so far, in order

vars == <<db, store, nextId, clock, pc, payload, data, existing, resp, created, scLog>>

Collections == {"recipe", "lesson", "ad", "video", "contact"}
EmptyStore == [c \in Collections |-> <<>>]

NoResp == [op |-> "none", status |-> 0, id |-> "", items |-> <<>>,
           body |-> EmptyDict, q |-> None, tag |-> None, args |-> EmptyDict]
Answer(op) == [NoResp EXCEPT !.op = op, !.status = 200]
ServerError(op) == [NoResp EXCEPT !.op = op, !.status = 500]

\* ---------------------------------------------------------------- helpers
\* a serializer that leaks the internal identifier instead of renaming it
serialize_doc_keeps_oid(doc) ==
  IF doc = EmptyDict THEN doc
  ELSE [k \in DOMAIN doc |->
          IF k \in DatetimeKeys THEN IsoFormat(doc[k]) ELSE doc[k]]

serialize_doc(doc) ==
  IF doc = EmptyDict THEN doc
  ELSE LET d == IF "_id" \in DOMAIN doc
                THEN Put(Without(doc, "_id"), "id", StrOid(doc["_id"]))
                ELSE doc
       IN [k \in DOMAIN d |->
             IF k \in DatetimeKeys THEN IsoFormat(d[k]) ELSE d[k]]

\* the store's insert: a fresh identifier, the document persisted as given
create_document(st, oid, coll, pl) ==
  [store |-> [st EXCEPT ![coll] = Append(@, Put(pl, "_id", oid))],
   id |-> StrOid(oid)]

find_one(coll) == IF coll = <<>> THEN NoDoc ELSE coll[1]

update_one(coll, oid, fields) ==
  LET hit == {i \in 1..Len(coll) : coll[i]["_id"] = oid}
  IN IF hit = {} THEN coll
     ELSE LET first == CHOOSE i \in hit : \A j \in hit : i <= j
          IN [coll EXCEPT ![first] = Merge(@, fields)]

CanInsert == nextId <= MaxDocs

WorkerVars == <<pc, payload, data, existing>>

\* ---------------------------------------------------------------- creates
Create(op, coll, pl) ==
  /\ UNCHANGED <<db, clock, WorkerVars, scLog>>
  /\ IF db = "None"
     THEN /\ resp' = ServerError(op)
          /\ UNCHANGED <<store, nextId, created>>
     ELSE /\ CanInsert
          /\ LET r == create_document(store, nextId, coll, pl)
             IN /\ store' = r.store
                /\ resp' = [Answer(op) EXCEPT !.id = r.id]
                /\ created' = created \cup {[coll |-> coll, payload |-> pl, id |-> r.id]}
          /\ nextId' = nextId + 1

create_recipe(pl) == Create("create_recipe", "recipe", pl)
create_lesson(pl) == Create("create_lesson", "lesson", pl)
\* a create_ad that names the wrong collection
create_ad_into_video(pl) == Create("create_ad", "video", pl)

create_ad(pl) == Create("create_ad", "ad", pl)
create_video(pl) == Create("create_video", "video", pl)

\* ---------------------------------------------------------------- filters
Lower(c) == IF c = "A" THEN "a" ELSE IF c = "B" THEN "b" ELSE c

\* the pattern language of the store's $regex, over the characters used here:
\* "." matches any character, "(" opens a group that nothing closes (the
\* pattern does not compile), every other character matches itself
RegexValid(pat) == \A j \in 1..Len(pat) : pat[j] # "("

RegexChar(pc1, c, ci) ==
  \/ pc1 = "."
  \/ IF ci THEN Lower(pc1) = Lower(c) ELSE pc1 = c

RegexSearch(pat, s, ci) ==
  \E i \in 0..(Len(s) - Len(pat)) :
     \A j \in 1..Len(pat) : RegexChar(pat[j], s[i + j], ci)

Regex(q) == [op |-> "$regex", pattern |-> q, options |-> "i"]
ElemMatch(c) == [op |-> "$elemMatch", cond |-> c]
Eq(v) == [op |-> "$eq", value |-> v]

RegexHolds(v, c) == v # None /\ RegexSearch(c.pattern, v, c.options = "i")

CondHolds(v, c) ==
  CASE c.op = "$eq" -> v = c.value
    [] c.op = "$regex" -> RegexHolds(v, c)
    [] c.op = "$elemMatch" -> \E i \in 1..Len(v) : RegexHolds(v[i], c.cond)

ClauseMatches(doc, f) ==
  \A k \in DOMAIN f : k \in DOMAIN doc /\ CondHolds(doc[k], f[k])

Matches(doc, f) ==
  \A k \in DOMAIN f :
     IF k = "$or"
     THEN \E i \in 1..Len(f[k]) : ClauseMatches(doc, f[k][i])
     ELSE k \in DOMAIN doc /\ CondHolds(doc[k], f[k])

CondValid(c) ==
  CASE c.op = "$eq" -> TRUE
    [] c.op = "$regex" -> RegexValid(c.pattern)
    [] c.op = "$elemMatch" -> RegexValid(c.cond.pattern)

FilterValid(f) ==
  \A k \in DOMAIN f :
     IF k = "$or"
     THEN \A i \in 1..Len(f[k]) : \A kk \in DOMAIN f[k][i] : CondValid(f[k][i][kk])
     ELSE CondValid(f[k])

\* the store's find: every document matching the filter, in storage order
get_documents(st, conn, coll, f) ==
  IF conn = "None" \/ ~FilterValid(f)
  THEN [ok |-> FALSE, docs |-> <<>>]
  ELSE [ok |-> TRUE, docs |-> SelectSeq(st[coll], LAMBDA d : Matches(d, f))]

Serialized(docs) == [i \in 1..Len(docs) |-> serialize_doc(docs[i])]

\* ---------------------------------------------------------------- lists
\* a filter builder in which tag replaces the q condition
list_recipes_filter_tag_overrides(q, tag) ==
  IF Truthy(tag) THEN [tags |-> ElemMatch(Regex(tag))]
  ELSE IF Truthy(q)
       THEN Put(EmptyDict, "$or",
                << [title |-> Regex(q)], [description |-> Regex(q)],
                   [ingredients |-> ElemMatch(Regex(q))], [tags |-> ElemMatch(Regex(q))] >>)
       ELSE EmptyDict

list_recipes_filter(q, tag) ==
  LET f0 == EmptyDict
      f1 == IF Truthy(q)
            THEN Put(f0, "$or",
                     << [title |-> Regex(q)], [description |-> Regex(q)],
                        [ingredients |-> ElemMatch(Regex(q))], [tags |-> ElemMatch(Regex(q))] >>)
            ELSE f0
  IN IF Truthy(tag) THEN SetDefault(f1, "tags", ElemMatch(Regex(tag))) ELSE f1

list_lessons_filter(q) ==
  IF Truthy(q)
  THEN Put(EmptyDict, "$or",
           << [title |-> Regex(q)], [content |-> Regex(q)], [tags |-> ElemMatch(Regex(q))] >>)
  ELSE EmptyDict

list_videos_filter(q) ==
  IF Truthy(q)
  THEN Put(EmptyDict, "$or",
           << [title |-> Regex(q)], [description |-> Regex(q)], [tags |-> ElemMatch(Regex(q))] >>)
  ELSE EmptyDict

\* the default of the parameter active
list_ads_default == {TRUE}

\* a filter builder whose parameter active defaults to None
list_ads_filter_no_default(args) ==
  LET active == IF "active" \in DOMAIN args THEN args.active ELSE NoneBool
  IN IF active # NoneBool
     THEN Put(EmptyDict, "active", Eq(CHOOSE b \in active : TRUE))
     ELSE EmptyDict

list_ads_filter(args) ==
  LET active == IF "active" \in DOMAIN args THEN args.active ELSE list_ads_default
  IN IF active # NoneBool
     THEN Put(EmptyDict, "active", Eq(CHOOSE b \in active : TRUE))
     ELSE EmptyDict

List(op, coll, f, q, tag, args) ==
  /\ UNCHANGED <<db, store, nextId, clock, WorkerVars, created, scLog>>
  /\ LET r == get_documents(store, db, coll, f)
     IN resp' = IF r.ok
                THEN [Answer(op) EXCEPT !.items = Serialized(r.docs),
                                        !.q = q, !.tag = tag, !.args = args]
                ELSE [ServerError(op) EXCEPT !.q = q, !.tag = tag, !.args = args]

list_recipes(q, tag) == List("list_recipes", "recipe", list_recipes_filter(q, tag), q, tag, EmptyDict)
list_lessons(q) == List("list_lessons", "lesson", list_lessons_filter(q), q, None, EmptyDict)
list_ads(args) == List("list_ads", "ad", list_ads_filter(args), None, None, args)
list_videos(q) == List("list_videos", "video", list_videos_filter(q), q, None, EmptyDict)

\* ---------------------------------------------------------------- contact
\* a handler that fails when the collection holds no contact
get_contact_fails_when_empty ==
  /\ UNCHANGED <<db, store, nextId, clock, WorkerVars, created, scLog>>
  /\ IF db = "None" \/ store["contact"] = <<>>
     THEN resp' = ServerError("get_contact")
     ELSE resp' = [Answer("get_contact") EXCEPT
                      !.body = serialize_doc(find_one(store["contact"]))]

\* a handler that answers the empty object when there is no connection
get_contact_swallows ==
  /\ UNCHANGED <<db, store, nextId, clock, WorkerVars, created, scLog>>
  /\ IF db = "None"
     THEN resp' = Answer("get_contact")
     ELSE LET doc == find_one(store["contact"])
          IN resp' = [Answer("get_contact") EXCEPT
                         !.body = IF doc # NoDoc THEN serialize_doc(doc) ELSE EmptyDict]

get_contact ==
  /\ UNCHANGED <<db, store, nextId, clock, WorkerVars, created, scLog>>
  /\ IF db = "None"
     THEN resp' = ServerError("get_contact")
     ELSE LET doc == find_one(store["contact"])
          IN resp' = [Answer("get_contact") EXCEPT
                         !.body = IF doc # NoDoc THEN serialize_doc(doc) ELSE EmptyDict]

\* data = payload.model_dump(); data['updated_at'] = datetime.now(timezone.utc)
set_contact_data(pl, now) == Put(pl, "updated_at", now)

\* a write half that inserts whether or not a document exists
set_contact_write_always_inserts(st, oid, ex, pl, dat) ==
  LET r == create_document(st, oid, "contact", pl)
  IN [store |-> r.store, id |-> r.id, inserted |-> TRUE]

\* the write half of set_contact, on the document find_one returned
set_contact_write(st, oid, ex, pl, dat) ==
  IF ex # NoDoc
  THEN [store |-> [st EXCEPT !["contact"] = update_one(@, ex["_id"], dat)],
        id |-> StrOid(ex["_id"]), inserted |-> FALSE]
  ELSE LET r == create_document(st, oid, "contact", pl)
       IN [store |-> r.store, id |-> r.id, inserted |-> TRUE]

SetContactDone(w, pl, r) ==
  /\ store' = r.store
  /\ nextId' = IF r.inserted THEN nextId + 1 ELSE nextId
  /\ resp' = [Answer("set_contact") EXCEPT !.id = r.id]
  /\ scLog' = Append(scLog, [payload |-> pl, id |-> r.id])
  /\ UNCHANGED <<db, created>>

\* set_contact up to and including find_one
set_contact_find(w, pl) ==
  /\ pc[w] = "idle"
  /\ IF db = "None"
     THEN /\ resp' = ServerError("set_contact")
          /\ UNCHANGED <<db, store, nextId, clock, WorkerVars, created, scLog>>
     ELSE /\ clock < MaxCalls
          /\ clock' = clock + 1
          /\ payload' = [payload EXCEPT ![w] = pl]
          /\ data' = [data EXCEPT ![w] = set_contact_data(pl, clock')]
          /\ existing' = [existing EXCEPT ![w] = find_one(store["contact"])]
          /\ pc' = [pc EXCEPT ![w] = "found"]
          /\ UNCHANGED <<db, store, nextId, resp, created, scLog>>

\* set_contact from the test of existing to the answer
set_contact_store(w) ==
  /\ pc[w] = "found"
  /\ existing[w] = NoDoc => CanInsert
  /\ SetContactDone(w, payload[w],
                    set_contact_write(store, nextId, existing[w], payload[w], data[w]))
  /\ pc' = [pc EXCEPT ![w] = "idle"]
  /\ payload' = [payload EXCEPT ![w] = EmptyDict]
  /\ data' = [data EXCEPT ![w] = EmptyDict]
  /\ existing' = [existing EXCEPT ![w] = NoDoc]
  /\ UNCHANGED clock

\* set_contact run without any other request in between
set_contact(w, pl) ==
  /\ \A v \in Workers : pc[v] = "idle"
  /\ IF db = "None"
     THEN /\ resp' = ServerError("set_contact")
          /\ UNCHANGED <<db, store, nextId, clock, WorkerVars, created, scLog>>
     ELSE LET ex == find_one(store["contact"])
              dat == set_contact_data(pl, clock + 1)
          IN /\ clock < MaxCalls
             /\ ex = NoDoc => CanInsert
             /\ clock' = clock + 1
             /\ SetContactDone(w, pl, set_contact_write(store, nextId, ex, pl, dat))
             /\ UNCHANGED WorkerVars

\* ---------------------------------------------------------------- system
Init ==
  /\ db \in {"None", "connected"}
  /\ store = EmptyStore
  /\ nextId = 1
  /\ clock = 0
  /\ pc = [w \in Workers |-> "idle"]
  /\ payload = [w \in Workers |-> EmptyDict]
  /\ data = [w \in Workers |-> EmptyDict]
  /\ existing = [w \in Workers |-> NoDoc]
  /\ resp = NoResp
  /\ created = {}
  /\ scLog = <<>>

Requests ==
  \/ \E pl \in RecipePayloads : create_recipe(pl)
  \/ \E pl \in LessonPayloads : create_lesson(pl)
  \/ \E pl \in AdPayloads : create_ad(pl)
  \/ \E pl \in VideoPayloads : create_video(pl)
  \/ \E q \in QueryArgs, tag \in TagArgs : list_recipes(q, tag)
  \/ \E q \in QueryArgs : list_lessons(q)
  \/ \E args \in AdArgs : list_ads(args)
  \/ \E q \in QueryArgs : list_videos(q)
  \/ get_contact

\* requests served concurrently: set_contact is a read and a later write
Next ==
  \/ Requests
  \/ \E w \in Workers, pl \in ContactPayloads : set_contact_find(w, pl)
  \/ \E w \in Workers : set_contact_store(w)

Spec == Init /\ [][Next]_vars

\* requests served one at a time
NextSeq ==
  \/ Requests
  \/ \E w \in Workers, pl \in ContactPayloads : set_contact(w, pl)

SpecSeq == Init /\ [][NextSeq]_vars

\* the contact requests and the creates, served concurrently
NextRace ==
  \/ \E pl \in RecipePayloads : create_recipe(pl)
  \/ \E pl \in LessonPayloads : create_lesson(pl)
  \/ \E pl \in AdPayloads : create_ad(pl)
  \/ \E pl \in VideoPayloads : create_video(pl)
  \/ get_contact
  \/ \E w \in Workers, pl \in ContactPayloads : set_contact_find(w, pl)
  \/ \E w \in Workers : set_contact_store(w)

SpecRace == Init /\ [][NextRace]_vars

\* ---------------------------------------------------------------- properties
Contact == store["contact"]
Docs(coll) == {store[coll][i] : i \in 1..Len(store[coll])}
Ids(docs) == {StrOid(d["_id"]) : d \in docs}
Items == {resp.items[i] : i \in 1..Len(resp.items)}
ReturnedIds == {it["id"] : it \in {x \in Items : "id" \in DOMAIN x}}
ContactKeys == {"phone", "email", "address"}
Fields(doc, keys) == [k \in keys |-> doc[k]]
Ok(op) == resp.op = op /\ resp.status = 200

\* C1: under any interleaving of concurrent set_contact calls the contact
\* collection holds at most one document.
ContactIsSingleton == Len(Contact) <= 1

\* C2: set_contact calls run one after the other on an initially empty
\* collection leave exactly one contact document, whose fields are those of the
\* latest payload and whose identifier is the one every call returned, the
\* first call included.
SequentialUpsertKeepsId ==
  Len(scLog) >= 2 =>
    LET last == scLog[Len(scLog)]
    IN /\ Len(Contact) = 1
       /\ Fields(Contact[1], ContactKeys) = last.payload
       /\ last.id = scLog[1].id
       /\ StrOid(Contact[1]["_id"]) = last.id

TwoCallsDifferentPayloads ==
  /\ Len(scLog) = 2
  /\ scLog[1].payload # scLog[2].payload
  /\ Ok("set_contact")

\* C3: after a successful set_contact call, on the creating and on the
\* overwriting branch, the stored contact document carries the timestamp that
\* call computed.
ContactCarriesTimestamp ==
  Ok("set_contact") =>
    \E d \in Docs("contact") :
       /\ StrOid(d["_id"]) = resp.id
       /\ "updated_at" \in DOMAIN d
       /\ d["updated_at"] = clock

\* C4: with q and tag both non-empty, list_recipes returns a recipe exactly
\* when it satisfies the q condition and the tag condition.
SomeElement(list, pat) ==
  \E i \in 1..Len(list) : list[i] # None /\ RegexSearch(pat, list[i], TRUE)
TextField(v, pat) == v # None /\ RegexSearch(pat, v, TRUE)
QConditionRecipe(d, q) ==
  /\ RegexValid(q)
  /\ \/ TextField(d["title"], q)
     \/ TextField(d["description"], q)
     \/ SomeElement(d["ingredients"], q)
     \/ SomeElement(d["tags"], q)
TagCondition(d, tag) == RegexValid(tag) /\ SomeElement(d["tags"], tag)

QAndTagBothRequired ==
  (resp.op = "list_recipes" /\ Truthy(resp.q) /\ Truthy(resp.tag)) =>
    ReturnedIds = Ids({d \in Docs("recipe") :
                          QConditionRecipe(d, resp.q) /\ TagCondition(d, resp.tag)})

QAndTagEachExclude ==
  /\ Ok("list_recipes") /\ Truthy(resp.q) /\ Truthy(resp.tag)
  /\ \E d \in Docs("recipe") : QConditionRecipe(d, resp.q) /\ ~TagCondition(d, resp.tag)
  /\ \E d \in Docs("recipe") : ~QConditionRecipe(d, resp.q) /\ TagCondition(d, resp.tag)

\* C5: without q the searches return every document; with q they return a
\* document exactly when q is a case-insensitive literal substring of a
\* designated text field or of an element of a designated list field.
IsSubstringCI(q, s) ==
  /\ s # None
  /\ \E i \in 0..(Len(s) - Len(q)) :
        \A j \in 1..Len(q) : Lower(q[j]) = Lower(s[i + j])
SomeElementHas(list, q) == \E i \in 1..Len(list) : IsSubstringCI(q, list[i])
SearchColl ==
  [list_recipes |-> "recipe", list_lessons |-> "lesson", list_videos |-> "video"]
TextKeys ==
  [recipe |-> {"title", "description"}, lesson |-> {"title", "content"},
   video |-> {"title", "description"}]
ListKeys ==
  [recipe |-> {"tags", "ingredients"}, lesson |-> {"tags"}, video |-> {"tags"}]
HasLiteral(coll, d, q) ==
  \/ \E k \in TextKeys[coll] : IsSubstringCI(q, d[k])
  \/ \E k \in ListKeys[coll] : SomeElementHas(d[k], q)

SearchIsLiteralSubstring ==
  (resp.op \in DOMAIN SearchColl /\ ~Truthy(resp.tag)) =>
    LET coll == SearchColl[resp.op]
    IN IF resp.q = None
       THEN ReturnedIds = Ids(Docs(coll))
       ELSE ReturnedIds = Ids({d \in Docs(coll) : HasLiteral(coll, d, resp.q)})

\* C6: list_ads without the parameter active returns the ads whose active is
\* true, with active true or false the ads whose active has that value, and
\* with active None every ad.
AdsFilteredByActive ==
  Ok("list_ads") =>
    ReturnedIds =
      Ids({d \in Docs("ad") :
             IF "active" \notin DOMAIN resp.args THEN d["active"] = TRUE
             ELSE IF resp.args["active"] = NoneBool THEN TRUE
             ELSE d["active"] \in resp.args["active"]})

AdsDefaultHidesInactive ==
  /\ Ok("list_ads")
  /\ "active" \notin DOMAIN resp.args
  /\ \E d \in Docs("ad") : d["active"]
  /\ \E d \in Docs("ad") : ~d["active"]

\* C7: a recipe, lesson or video whose create call returned id i is in every
\* later unfiltered list of its collection, under the public id i and with the
\* fields of its payload, the internal identifier not being exposed.
CreatedIsListed ==
  (resp.op \in DOMAIN SearchColl /\ resp.status = 200
     /\ ~Truthy(resp.q) /\ ~Truthy(resp.tag)) =>
    \A c \in created :
       c.coll = SearchColl[resp.op] =>
         \E it \in Items :
            /\ DOMAIN it = DOMAIN c.payload \cup {"id"}
            /\ it["id"] = c.id
            /\ Fields(it, DOMAIN c.payload) = c.payload

ListedAfterCreate ==
  /\ Ok("list_videos") /\ resp.q = None
  /\ \E c \in created : c.coll = "video"
  /\ Len(resp.items) = 2

\* C8: with the connection established get_contact does not fail; it answers
\* the empty object when the collection holds no contact and otherwise a
\* contact document of the collection, serialized with its identifier as id.
GetContactAnswers ==
  (resp.op = "get_contact" /\ db = "connected") =>
    /\ resp.status = 200
    /\ IF Contact = <<>>
       THEN resp.body = EmptyDict
       ELSE \E d \in Docs("contact") :
               /\ DOMAIN resp.body = (DOMAIN d \ {"_id"}) \cup {"id"}
               /\ resp.body["id"] = StrOid(d["_id"])
               /\ Fields(resp.body, ContactKeys) = Fields(d, ContactKeys)

GetContactAfterRace ==
  /\ Ok("get_contact")
  /\ Len(Contact) = 2
  /\ resp.body # EmptyDict

\* C9: without a connection every create, list, set_contact and get_contact
\* ends in a server error: no items, no object and no id are answered, and the
\* store is unchanged.
NoConnectionIsServerError ==
  db = "None" =>
    /\ resp.op # "none" =>
         /\ resp.status = 500
         /\ resp.items = <<>> /\ resp.body = EmptyDict /\ resp.id = ""
    /\ store = EmptyStore
    /\ created = {} /\ scLog = <<>>

GetContactWithoutConnection ==
  db = "None" /\ resp.op = "get_contact" /\ resp.status = 500

\* C10: a document of the recipe, lesson, ad or video collection is never
\* removed or changed; a create call appends one document with a fresh
\* identifier to its own collection only, and the lists, get_contact and
\* set_contact leave the four collections as they are.
AppendOnlyColls == {"recipe", "lesson", "ad", "video"}
CreateOf == [recipe |-> "create_recipe", lesson |-> "create_lesson",
             ad |-> "create_ad", video |-> "create_video"]
AllIds == UNION {Ids(Docs(c)) : c \in Collections}

AppendOnly ==
  [][\A c \in AppendOnlyColls :
       \/ store'[c] = store[c]
       \/ /\ Len(store'[c]) = Len(store[c]) + 1
          /\ SubSeq(store'[c], 1, Len(store[c])) = store[c]
          /\ StrOid(store'[c][Len(store'[c])]["_id"]) \notin AllIds
          /\ resp'.op = CreateOf[c] /\ resp'.status = 200
          /\ \A o \in Collections \ {c} : store'[o] = store[o]]_vars

ContactWrittenAfterCreates ==
  /\ Ok("set_contact")
  /\ Len(scLog) = 2
  /\ \E c \in AppendOnlyColls : store[c] # <<>>
====
